---- MODULE Spec2Model ----
(***************************************************************************)
(* Model of the real-time chat core of speed-app: the useChat hook         *)
(* (src/src/lib/chat.ts), the ChatWindow rendering                         *)
(* (src/src/components/chat-window.tsx) and the chat tables, unique index  *)
(* and row-level-security policies of the store                            *)
(* (src/supabase/migrations/20250326194407_azure_mud.sql).                 *)
(*                                                                         *)
(* Every await of the hook is a round trip to the store.  A round trip is  *)
(* one action where the caller does nothing observable between the store's *)
(* answer and its own continuation, and two actions where other events of  *)
(* the same session can interleave (the history load).                     *)
(***************************************************************************)
EXTENDS Integers, Sequences, FiniteSets, TLC

\* ------------------------------------------------------------------ bounds
\* sendMessage calls in one behaviour of SpecSend
MaxSends == 2

\* sendMessage calls in one behaviour of Spec
MaxEdited == 1

\* bound: last value of the clock in SpecOrder
MaxTime == 2

\* bound: sendMessage calls in one behaviour of SpecOrder
MaxOrdered == 2

\* bound: sendMessage calls in one behaviour of SpecClose
MaxLate == 1

\* bound: loadChatRooms calls in one behaviour of SpecInbox
MaxLoads == 1

\* bound: calls of loadChatRooms of one MessagesList that may overlap
MaxOverlap == 2

\* bound: sendMessage calls in one behaviour of SpecInbox
MaxInboxSends == 2

\* bound: keystrokes in one behaviour of SpecTyping
MaxKeys == 2

\* bound: last value of the clock in SpecTyping
TypingHorizon == 12
\* the clock stops here when the quiet window of a keystroke is followed
QuietHorizon == 4

\* setTimeout(..., 2000) of the chat window's typing effect, in seconds
QuietWindow == 2

\* setTimeout(() => setIsOtherUserTyping(false), 3000), in seconds
AutoClear == 3

\* INTERVAL '10 seconds' of cleanup_typing_indicators
PassiveExpiry == 10

\* --------------------------------------------------------------- constants
\* null / undefined of a uuid or a timestamp
NULL == 0

\* user ids, compared the way uuid strings compare
Users == {1, 2, 3}

\* the mounted useChat instances (one ChatWindow each)
Sessions == {"s1", "s2", "s3"}

\* useAuth().user of each instance: s1 and s3 are two windows of user 1
SessUser == [s \in Sessions |-> IF s = "s2" THEN 2 ELSE 1]

\* texts typed into the input
Contents == {"hi", "yo"}

VARIABLES
  chat_rooms,      \* table chat_rooms: sequence of rows, index = commit order
  chat_messages,   \* table chat_messages: sequence of rows, index = commit order
  now,             \* wall clock, in seconds
  pc,              \* position of each instance in initializeChat
  otherUserId,     \* prop otherUserId of each instance
  room,            \* useState room (its id, NULL when null)
  messages,        \* useState messages
  loading,         \* useState loading
  snapshot,        \* answer of the history query, in flight to the instance
  sub,             \* rooms whose INSERT feed the instance is subscribed to
  feed,            \* realtime INSERT events queued for the instance
  sends,           \* history: every sendMessage call, index = call number
  how,             \* history: how the instance resolved its room (kept until
                   \* the instance goes on to its history query)
  lastCall,        \* history: the deleteMessage / markAsRead call that completed last
  typing_indicators,  \* table typing_indicators: set of rows
  tsub,            \* typing feeds the instance is subscribed to: room and the
                   \* otherUserId its handler closed over
  tfeed,           \* realtime typing_indicators events queued for the instance
  isOtherUserTyping,  \* useState isOtherUserTyping
  clearTimers,     \* pending setTimeout(() => setIsOtherUserTyping(false), 3000)
  isTyping,        \* ChatWindow useState isTyping
  typingTimeout,   \* ChatWindow typingTimeoutRef: deadline of the pending timeout
  burst,           \* history: setTyping(true) calls since isTyping last became true
  lastTypingAt,    \* history: when a typing signal last reached the instance
  keys,            \* history: keystrokes so far
  lastKeyAt,       \* history: when the user last pressed a key, while isTyping
  inbox            \* the MessagesList of InboxUser: its loadChatRooms calls,
                   \* useState rooms, useState loading

typingVars == <<typing_indicators, tsub, tfeed, isOtherUserTyping, clearTimers,
                isTyping, typingTimeout, burst, lastTypingAt, keys, lastKeyAt>>

auxVars == <<typingVars, inbox>>

vars == <<chat_rooms, chat_messages, now, pc, otherUserId, room, messages,
          loading, snapshot, sub, feed, sends, how, lastCall, auxVars>>

storeVars == <<chat_rooms, chat_messages>>
msgVars == <<messages, snapshot, sub, feed, sends, lastCall>>

\* ----------------------------------------------------------------- helpers
Min(a, b) == IF a <= b THEN a ELSE b
Max(a, b) == IF a <= b THEN b ELSE a

Range(q) == {q[i] : i \in 1..Len(q)}

RECURSIVE SelectSeqBy(_, _)
\* Array.prototype.filter with a predicate given as the set of kept values
SelectSeqBy(q, keep) ==
  IF q = <<>> THEN <<>>
  ELSE IF Head(q) \in keep
       THEN <<Head(q)>> \o SelectSeqBy(Tail(q), keep)
       ELSE SelectSeqBy(Tail(q), keep)

\* ------------------------------------------------------------- chat_rooms
\* rows of chat_rooms between the two users, in either stored order
RoomsOfPair(rooms, a, b) ==
  {i \in 1..Len(rooms) :
      \/ rooms[i].participant1_id = a /\ rooms[i].participant2_id = b
      \/ rooms[i].participant1_id = b /\ rooms[i].participant2_id = a}

\* .or(and(p1=a,p2=b),and(p1=b,p2=a)).order(created_at).limit(1).maybeSingle()
FindRoom(rooms, a, b) ==
  IF RoomsOfPair(rooms, a, b) = {} THEN NULL
  ELSE CHOOSE i \in RoomsOfPair(rooms, a, b) :
         \A j \in RoomsOfPair(rooms, a, b) : i <= j

UniqueViolationNever(rooms, p1, p2) == FALSE

\* unique index chat_rooms_participants_unique on (LEAST(p1,p2), GREATEST(p1,p2))
UniqueViolation(rooms, p1, p2) ==
  \E i \in 1..Len(rooms) :
     /\ Min(rooms[i].participant1_id, rooms[i].participant2_id) = Min(p1, p2)
     /\ Max(rooms[i].participant1_id, rooms[i].participant2_id) = Max(p1, p2)

\* error code of the insert into chat_rooms
InsertRoomCode(rooms, p1, p2) ==
  IF UniqueViolation(rooms, p1, p2) THEN "23505" ELSE "ok"

RecoverableNever(code) == FALSE

\* error.code === '23505'
Recoverable(code) == code = "23505"

\* ---------------------------------------------------------- chat_messages
\* new Date().toISOString() on the machine of a user: clocks are not synchronised
Skew == [u \in Users |-> IF u = 2 THEN 1 ELSE 0]
ClientClock(u) == now + Skew[u]

\* ids of the rows of a room
RowsOfRoom(rows, r) == {i \in 1..Len(rows) : rows[i].room_id = r}

\* the select answered in an order of its own
HistoryAnswersAnyOrder(rows, r) ==
  {q \in [1..Cardinality(RowsOfRoom(rows, r)) -> RowsOfRoom(rows, r)] :
      \A i, j \in DOMAIN q : i < j => q[i] # q[j]}

\* .select('*').eq('room_id', r).order('created_at', {ascending: true}):
\* every answer the store may give (rows of equal created_at in any order)
HistoryAnswers(rows, r) ==
  {q \in [1..Cardinality(RowsOfRoom(rows, r)) -> RowsOfRoom(rows, r)] :
      /\ \A i, j \in DOMAIN q : i < j => q[i] # q[j]
      /\ \A i, j \in DOMAIN q : i < j => rows[q[i]].created_at <= rows[q[j]].created_at}

\* row level security is enabled on chat_rooms and its policies are one FOR
\* SELECT and one FOR INSERT: no policy lets any user update a row
RoomUpdatePolicy(uid, r) == FALSE

\* trigger update_chat_room_timestamp AFTER INSERT ON chat_messages.  The
\* function is not SECURITY DEFINER: its UPDATE runs as the user who inserts
\* the message and touches the rows the policies let that user update.
UpdateChatRoomTimestamp(rooms, uid, row) ==
  [i \in 1..Len(rooms) |->
     IF rooms[i].id = row.room_id /\ RoomUpdatePolicy(uid, rooms[i])
     THEN [rooms[i] EXCEPT !.last_message_at = row.created_at]
     ELSE rooms[i]]

\* policy "Users can delete their own messages" FOR UPDATE: USING
UpdateUsing(uid, row) == uid = row.sender_id

\* policy "Users can delete their own messages" FOR UPDATE: WITH CHECK
UpdateCheck(uid, row) == row.deleted_at # NULL /\ uid = row.sender_id

\* the rows an update filtered on id and sender_id touches: those the
\* filters and the USING expression let through
UpdateTargets(rows, uid, id, sender) ==
  {i \in 1..Len(rows) :
      rows[i].id = id /\ rows[i].sender_id = sender /\ UpdateUsing(uid, rows[i])}

\* the row with one of its two mutable columns set
Patch(row, field, value) ==
  IF field = "read_at" THEN [row EXCEPT !.read_at = value]
                       ELSE [row EXCEPT !.deleted_at = value]

UpdateMessagesUnfiltered(rows, uid, id, sender, field, value) ==
  [i \in 1..Len(rows) |->
     IF rows[i].id = id THEN Patch(rows[i], field, value) ELSE rows[i]]

\* .update({field: value}).eq('id', id).eq('sender_id', sender) issued by uid:
\* the table after the statement; a touched row failing WITH CHECK aborts it
UpdateMessages(rows, uid, id, sender, field, value) ==
  LET targets == UpdateTargets(rows, uid, id, sender)
      patched == [i \in 1..Len(rows) |->
                    IF i \in targets THEN Patch(rows[i], field, value) ELSE rows[i]]
  IN IF \A i \in targets : UpdateCheck(uid, patched[i]) THEN patched ELSE rows

\* ChatWindow: msg.deleted_at ? 'This message was deleted' : msg.content
Rendered(msg) ==
  IF msg.deleted_at # NULL THEN "This message was deleted" ELSE msg.content

RollbackFilterNothing(current, content, uid) == current

\* current.filter(msg => msg.content !== content || msg.sender_id !== user.id)
RollbackFilter(current, content, uid) ==
  SelectSeqBy(current,
              {m \in Range(current) : m.content # content \/ m.sender_id # uid})

\* if (error) { ...; throw error } ... catch (error) { console.error; throw error }
\* ------------------------------------------------------------ MessagesList
\* the user whose MessagesList is followed
InboxUser == 2

\* the orders a query without (or with a tied) ORDER BY can answer in
Perms(S) == {q \in [1..Cardinality(S) -> S] : Range(q) = S}

\* .order('last_message_at', { ascending: false })
ByActivity(rooms, q) ==
  \A i, j \in DOMAIN q :
    i < j => rooms[q[i]].last_message_at >= rooms[q[j]].last_message_at

\* latest_message:chat_messages(content, created_at, sender_id): the embedded
\* rows are all messages of the room; the select gives them no order and no
\* limit (mo: the order in which the store happens to scan the table)
LatestMessageEmbed(rows, mo, r) ==
  LET q == SelectSeqBy(mo, {i \in Range(mo) : rows[i].room_id = r})
  IN [k \in DOMAIN q |-> [content |-> rows[q[k]].content,
                           created_at |-> rows[q[k]].created_at,
                           sender_id |-> rows[q[k]].sender_id]]

\* one query of loadChatRooms: the rooms with column `mine` equal to the
\* user, participant embedded from column `theirs`
RoomsAnswers(rooms, rows, uid, mine, theirs) ==
  LET I == {i \in DOMAIN rooms : rooms[i][mine] = uid} IN
    {[k \in DOMAIN ro |->
        [id |-> rooms[ro[k]].id,
         participant1_id |-> rooms[ro[k]].participant1_id,
         participant2_id |-> rooms[ro[k]].participant2_id,
         last_message_at |-> rooms[ro[k]].last_message_at,
         participant |-> rooms[ro[k]][theirs],
         latest_message |-> LatestMessageEmbed(rows, mo, rooms[ro[k]].id)]] :
       <<ro, mo>> \in {qq \in Perms(I) : ByActivity(rooms, qq)}
                        \X Perms(DOMAIN rows)}

\* the merged list is left as concatenated
SortNothing(q) == q

\* Array.prototype.sort with (a, b) => b.last_message_at - a.last_message_at:
\* stable, latest activity first
RECURSIVE SortByActivity(_)
SortByActivity(q) ==
  IF q = << >> THEN q
  ELSE LET rest == SortByActivity(SubSeq(q, 1, Len(q) - 1))
           x == q[Len(q)]
           n == Cardinality({i \in DOMAIN rest :
                              rest[i].last_message_at >= x.last_message_at})
       IN SubSeq(rest, 1, n) \o <<x>> \o SubSeq(rest, n + 1, Len(rest))

\* the row's preview: latest_message[0] if it is an array
LatestMessage(entry) ==
  IF entry.latest_message = << >> THEN NULL ELSE entry.latest_message[1]

\* ------------------------------------------------------ typing_indicators
\* a set as a sequence, in some order
RECURSIVE SetToSeq(_)
SetToSeq(S) ==
  IF S = {} THEN << >>
  ELSE LET x == CHOOSE y \in S : TRUE IN <<x>> \o SetToSeq(S \ {x})

TypingRow(rows, r, u) == {x \in rows : x.room_id = r /\ x.user_id = u}

\* policy "Users can manage their typing status" FOR ALL: USING
TypingManagePolicy(uid, row) == uid = row.user_id

\* what cleanup_typing_indicators deletes: the function is not SECURITY
\* DEFINER, its DELETE runs as the user whose statement fired the trigger
Expired(rows, uid) ==
  {x \in rows : TypingManagePolicy(uid, x) /\ x.updated_at < now - PassiveExpiry}

\* the upsert added a row beside the one of the same key
UpsertBeside(rows, r, u, t) ==
  rows \cup {[room_id |-> r, user_id |-> u, updated_at |-> t]}

\* upsert({room_id, user_id, updated_at}, {onConflict: 'room_id,user_id'})
Upsert(rows, r, u, t) ==
  (rows \ TypingRow(rows, r, u))
    \cup {[room_id |-> r, user_id |-> u, updated_at |-> t]}

\* the table after setTyping(isT) of user u in room r; the upsert fires the
\* trigger cleanup_typing_indicators AFTER INSERT OR UPDATE
SetTypingRows(rows, r, u, isT) ==
  IF isT
  THEN LET up == Upsert(rows, r, u, ClientClock(u)) IN up \ Expired(up, u)
  ELSE rows \ TypingRow(rows, r, u)

\* the realtime events of that statement; payload.new of a DELETE event has
\* no user_id
SetTypingEvents(rows, r, u, isT) ==
  IF isT
  THEN <<[kind |-> IF TypingRow(rows, r, u) = {} THEN "INSERT" ELSE "UPDATE",
          room_id |-> r, user_id |-> u]>>
       \o SetToSeq({[kind |-> "DELETE", room_id |-> x.room_id, user_id |-> NULL] :
                      x \in Expired(Upsert(rows, r, u, ClientClock(u)), u)})
  ELSE IF TypingRow(rows, r, u) = {} THEN << >>
  ELSE <<[kind |-> "DELETE", room_id |-> r, user_id |-> NULL]>>

\* useChat.setTyping of window s: `if (!room || !user) return`
TypingAfter(s, isT) ==
  IF room[s] = NULL THEN typing_indicators
  ELSE SetTypingRows(typing_indicators, room[s], SessUser[s], isT)

TypingEventsOf(s, isT) ==
  IF room[s] = NULL THEN << >>
  ELSE SetTypingEvents(typing_indicators, room[s], SessUser[s], isT)

\* every window with a typing channel on the event's room gets the event
Fanout(feeds, evs) ==
  [t \in Sessions |->
     feeds[t] \o SelectSeqBy(evs, {e \in Range(evs) :
                                    \E c \in tsub[t] : c.room_id = e.room_id})]

\* the typing handler started no timeout
NoAutoClear(timers, t) == timers

\* setTimeout(() => setIsOtherUserTyping(false), 3000); nothing clears it
StartAutoClear(timers, t) == timers \cup {t + AutoClear}

\* the optimistic append is a second copy of an entry that is already there
OptimisticAppendOnce(current, newMessage) ==
  IF \E i \in DOMAIN current : /\ current[i].content = newMessage.content
                                /\ current[i].sender_id = newMessage.sender_id
  THEN current ELSE Append(current, newMessage)

\* setMessages(current => [...current, newMessage])
OptimisticAppend(current, newMessage) == Append(current, newMessage)

\* what the input field can hold, as sequences of characters
Texts == {<< >>, <<" ">>, <<"h", "i">>, <<"h", "i", " ">>}

IsSpace(c) == c = " "

\* String.prototype.trim() left the text as it was
TrimNothing(text) == text

\* String.prototype.trim(): white space removed from both ends
RECURSIVE Trim(_)
Trim(text) ==
  IF text = << >> THEN text
  ELSE IF IsSpace(Head(text)) THEN Trim(Tail(text))
  ELSE IF IsSpace(text[Len(text)]) THEN Trim(SubSeq(text, 1, Len(text) - 1))
  ELSE text

SendResult(error) == IF error THEN "thrown" ELSE "resolved"

\* ------------------------------------------------------------------- Init
Init ==
  /\ chat_rooms = <<>>
  /\ chat_messages = <<>>
  /\ now = 1
  /\ pc = [s \in Sessions |-> "idle"]
  /\ otherUserId = [s \in Sessions |-> NULL]
  /\ room = [s \in Sessions |-> NULL]
  /\ messages = [s \in Sessions |-> <<>>]
  /\ loading = [s \in Sessions |-> TRUE]
  /\ snapshot = [s \in Sessions |-> <<>>]
  /\ sub = [s \in Sessions |-> {}]
  /\ feed = [s \in Sessions |-> <<>>]
  /\ sends = <<>>
  /\ how = [s \in Sessions |-> "none"]
  /\ lastCall = [op |-> "none", sess |-> "s1", id |-> NULL, result |-> "none",
                 again |-> FALSE]
  /\ typing_indicators = {}
  /\ tsub = [s \in Sessions |-> {}]
  /\ tfeed = [s \in Sessions |-> <<>>]
  /\ isOtherUserTyping = [s \in Sessions |-> FALSE]
  /\ clearTimers = [s \in Sessions |-> {}]
  /\ isTyping = [s \in Sessions |-> FALSE]
  /\ typingTimeout = [s \in Sessions |-> NULL]
  /\ burst = [s \in Sessions |-> 0]
  /\ lastTypingAt = [s \in Sessions |-> NULL]
  /\ keys = 0
  /\ lastKeyAt = [s \in Sessions |-> NULL]
  /\ inbox = [loads |-> << >>, rooms |-> << >>, loading |-> TRUE]

\* ------------------------------------------------------- room resolution
\* the ChatWindow is mounted with a counterpart; the effect starts initializeChat
Mount(s, o) ==
  /\ pc[s] = "idle"
  /\ o # SessUser[s]
  /\ pc' = [pc EXCEPT ![s] = "lookup"]
  /\ otherUserId' = [otherUserId EXCEPT ![s] = o]
  /\ UNCHANGED <<auxVars, storeVars, now, room, loading, how, msgVars>>

\* the error is not thrown: initializeChat goes on to the history load
InitContinues(s) ==
  /\ pc' = [pc EXCEPT ![s] = "load"]
  /\ loading' = loading

\* the catch of initializeChat: console.error, setLoading(false)
InitFailed(s) ==
  /\ pc' = [pc EXCEPT ![s] = "failed"]
  /\ loading' = [loading EXCEPT ![s] = FALSE]

\* setRoom(currentRoom); the next await is the history query
RoomResolved(s, id, via) ==
  /\ room' = [room EXCEPT ![s] = id]
  /\ how' = [how EXCEPT ![s] = via]
  /\ pc' = [pc EXCEPT ![s] = "load"]

\* the first query answers: an existing room, or none
Lookup(s) ==
  /\ pc[s] = "lookup"
  /\ LET found == FindRoom(chat_rooms, SessUser[s], otherUserId[s]) IN
       IF found # NULL
       THEN RoomResolved(s, found, "found")
       ELSE /\ pc' = [pc EXCEPT ![s] = "insert"]
            /\ UNCHANGED <<room, how>>
  /\ UNCHANGED <<auxVars, storeVars, now, otherUserId, loading, msgVars>>

\* the first query fails: its error is not read, existingRoom is null
LookupError(s) ==
  /\ pc[s] = "lookup"
  /\ pc' = [pc EXCEPT ![s] = "insert"]
  /\ UNCHANGED <<auxVars, storeVars, now, otherUserId, room, loading, how, msgVars>>

\* the insert of the sorted pair answers: a new row, or error 23505
InsertRoom(s) ==
  /\ pc[s] = "insert"
  /\ LET p1 == Min(SessUser[s], otherUserId[s])
         p2 == Max(SessUser[s], otherUserId[s])
         code == InsertRoomCode(chat_rooms, p1, p2)
         newRoom == [id |-> Len(chat_rooms) + 1,
                     participant1_id |-> p1, participant2_id |-> p2,
                     last_message_at |-> now]
     IN IF code = "ok"
        THEN /\ chat_rooms' = Append(chat_rooms, newRoom)
             /\ RoomResolved(s, newRoom.id, "created")
             /\ UNCHANGED loading
        ELSE IF Recoverable(code)
        THEN /\ pc' = [pc EXCEPT ![s] = "requery"]
             /\ UNCHANGED <<chat_rooms, room, how, loading>>
        ELSE /\ InitFailed(s)
             /\ UNCHANGED <<chat_rooms, room, how>>
  /\ UNCHANGED <<auxVars, chat_messages, now, otherUserId, msgVars>>

\* the insert fails with any other error (network, policy): throw error
InsertRoomError(s) ==
  /\ pc[s] = "insert"
  /\ InitFailed(s)
  /\ how' = [how EXCEPT ![s] = "insert-error"]
  /\ UNCHANGED <<auxVars, storeVars, now, otherUserId, room, msgVars>>

\* the re-query after 23505 answers
Requery(s) ==
  /\ pc[s] = "requery"
  /\ LET p1 == Min(SessUser[s], otherUserId[s])
         p2 == Max(SessUser[s], otherUserId[s])
         recovered == FindRoom(chat_rooms, p1, p2)
     IN IF recovered # NULL
        THEN RoomResolved(s, recovered, "recovered") /\ UNCHANGED loading
        ELSE InitFailed(s) /\ UNCHANGED <<room, how>>
  /\ UNCHANGED <<auxVars, storeVars, now, otherUserId, msgVars>>

\* the re-query fails: recoveredRoom is null, 'Failed to recover chat room'
RequeryError(s) ==
  /\ pc[s] = "requery"
  /\ InitFailed(s)
  /\ how' = [how EXCEPT ![s] = "requery-error"]
  /\ UNCHANGED <<auxVars, storeVars, now, otherUserId, room, msgVars>>

\* ----------------------------------------------------------- history load
\* the history query answers with a snapshot of the room's rows
LoadQuery(s) ==
  /\ pc[s] = "load"
  /\ \E q \in HistoryAnswers(chat_messages, room[s]) :
       snapshot' = [snapshot EXCEPT ![s] = [i \in DOMAIN q |-> chat_messages[q[i]]]]
  /\ pc' = [pc EXCEPT ![s] = "loaded"]
  /\ how' = [how EXCEPT ![s] = "none"]
  /\ UNCHANGED <<auxVars, storeVars, now, otherUserId, room, loading,
                 messages, sub, feed, sends, lastCall>>

\* the history query fails: throw messagesError, caught by initializeChat
LoadError(s) ==
  /\ pc[s] = "load"
  /\ InitFailed(s)
  /\ how' = [how EXCEPT ![s] = "none"]
  /\ UNCHANGED <<auxVars, storeVars, now, otherUserId, room, msgVars>>

\* setMessages(messages || []), both channels subscribed, setLoading(false)
LoadDone(s) ==
  /\ pc[s] = "loaded"
  /\ messages' = [messages EXCEPT ![s] = snapshot[s]]
  /\ snapshot' = [snapshot EXCEPT ![s] = <<>>]
  /\ sub' = [sub EXCEPT ![s] = @ \cup {room[s]}]
  /\ tsub' = [tsub EXCEPT ![s] = @ \cup {[room_id |-> room[s],
                                           other |-> otherUserId[s]]}]
  /\ loading' = [loading EXCEPT ![s] = FALSE]
  /\ pc' = [pc EXCEPT ![s] = "ready"]
  /\ UNCHANGED <<storeVars, now, otherUserId, room, how, feed, sends, lastCall,
                 typing_indicators, tfeed, isOtherUserTyping, clearTimers,
                 isTyping, typingTimeout, burst, lastTypingAt, keys, lastKeyAt, inbox>>

\* the chat window's typing effect, deps [isTyping, setTyping].  useChat
\* makes a new setTyping function on every render, so the effect runs again
\* on every render of the window: its cleanup clears the timeout and, when
\* isTyping is true, it calls setTyping(true) and starts a new timeout.
\* `runs`: the window rendered with isTyping true; `feeds`: tfeed before the
\* events of this call are queued.
TypingEffect(s, runs, feeds) ==
  /\ typing_indicators' = IF runs THEN TypingAfter(s, TRUE) ELSE typing_indicators
  /\ tfeed' = Fanout(feeds, IF runs THEN TypingEventsOf(s, TRUE) ELSE << >>)
  /\ typingTimeout' = [typingTimeout EXCEPT ![s] =
                         IF runs THEN now + QuietWindow ELSE @]
  /\ burst' = [burst EXCEPT ![s] = IF runs THEN @ + 1 ELSE @]

\* ------------------------------------------------------------ sendMessage
\* sendMessage(content) up to its await: the optimistic append, which
\* renders the window and so runs the typing effect
SendStart(s, content) ==
  /\ room[s] # NULL
  /\ Len(sends) < MaxSends
  /\ LET sid == Len(sends) + 1
         newMessage == [id |-> NULL, room_id |-> room[s],
                        sender_id |-> SessUser[s], content |-> content,
                        created_at |-> ClientClock(SessUser[s]),
                        read_at |-> NULL, deleted_at |-> NULL, sid |-> sid]
     IN /\ messages' = [messages EXCEPT ![s] = OptimisticAppend(@, newMessage)]
        /\ sends' = Append(sends, [sess |-> s, msg |-> newMessage,
                                   state |-> "pending", result |-> "pending",
                                   echoed |-> FALSE])
  /\ TypingEffect(s, isTyping[s], tfeed)
  /\ chat_rooms' = chat_rooms
  /\ chat_messages' = chat_messages
  /\ UNCHANGED <<now, pc, otherUserId, room, loading, how,
                 snapshot, sub, feed, lastCall, tsub, isOtherUserTyping,
                 clearTimers, isTyping, lastTypingAt, keys, lastKeyAt, inbox>>

\* the store commits the insert: the row gets its id, the realtime INSERT
\* event is queued for every subscriber of the room; sendMessage resolves
\* and its caller, handleSendMessage, goes on: setMessage(''),
\* setIsTyping(false), setTyping(false)
SendOk(k) ==
  /\ k \in DOMAIN sends
  /\ sends[k].state = "pending"
  /\ LET row == [sends[k].msg EXCEPT !.id = Len(chat_messages) + 1] IN
       /\ chat_messages' = Append(chat_messages, row)
       /\ chat_rooms' = UpdateChatRoomTimestamp(chat_rooms, row.sender_id, row)
       /\ feed' = [s \in Sessions |->
                     IF row.room_id \in sub[s] THEN Append(feed[s], row) ELSE feed[s]]
  /\ sends' = [sends EXCEPT ![k].state = "accepted",
                            ![k].result = SendResult(FALSE)]
  /\ LET s == sends[k].sess IN
       IF pc[s] = "closed"
       THEN UNCHANGED <<isTyping, typingTimeout, typing_indicators, tfeed,
                        lastKeyAt>>
       ELSE /\ isTyping' = [isTyping EXCEPT ![s] = FALSE]
            /\ lastKeyAt' = [lastKeyAt EXCEPT ![s] = NULL]
            /\ typingTimeout' = [typingTimeout EXCEPT ![s] = NULL]
            /\ typing_indicators' = TypingAfter(s, FALSE)
            /\ tfeed' = Fanout(tfeed, TypingEventsOf(s, FALSE))
  /\ UNCHANGED <<now, pc, otherUserId, room, loading, how, messages, snapshot,
                 sub, lastCall, tsub, isOtherUserTyping, clearTimers, burst,
                 lastTypingAt, keys, inbox>>

\* the insert fails: the rollback filter runs (the window renders, which
\* runs the typing effect) and the error is rethrown
SendFail(k) ==
  /\ k \in DOMAIN sends
  /\ sends[k].state = "pending"
  /\ LET s == sends[k].sess IN
       messages' = [messages EXCEPT ![s] =
                      RollbackFilter(@, sends[k].msg.content, SessUser[s])]
  /\ sends' = [sends EXCEPT ![k].state = "rejected",
                            ![k].result = SendResult(TRUE)]
  /\ TypingEffect(sends[k].sess,
                  isTyping[sends[k].sess] /\ pc[sends[k].sess] # "closed", tfeed)
  /\ UNCHANGED <<storeVars, now, pc, otherUserId, room, loading, how,
                 snapshot, sub, feed, lastCall, tsub, isOtherUserTyping,
                 clearTimers, isTyping, lastTypingAt, keys, lastKeyAt, inbox>>

\* the INSERT handler: setMessages(current => [...current, payload.new])
\* (React drops a state update of a component that is unmounted); the new
\* list renders the window, which runs the typing effect
Deliver(s) ==
  /\ feed[s] # <<>>
  /\ messages' = [messages EXCEPT ![s] =
                    IF pc[s] = "closed" THEN @ ELSE Append(@, Head(feed[s]))]
  /\ feed' = [feed EXCEPT ![s] = Tail(@)]
  /\ sends' = [k \in DOMAIN sends |->
                 IF sends[k].sess = s /\ Head(feed[s]).sid = k
                 THEN [sends[k] EXCEPT !.echoed = TRUE] ELSE sends[k]]
  /\ TypingEffect(s, isTyping[s] /\ pc[s] # "closed", tfeed)
  /\ UNCHANGED <<storeVars, now, pc, otherUserId, room, loading, how,
                 snapshot, sub, lastCall, tsub, isOtherUserTyping, clearTimers,
                 isTyping, lastTypingAt, keys, lastKeyAt, inbox>>

\* ChatWindow.handleSendMessage: the form is rendered once loading is false;
\* `if (!message.trim()) return`, else sendMessage(message) with the text as
\* typed.  (What follows the awaited call is part of SendOk.)
HandleSendMessage(s, text) ==
  /\ pc[s] \in {"ready", "failed"}
  /\ ~loading[s]
  /\ IF Trim(text) = << >>
     THEN /\ lastCall' = [op |-> "submit", sess |-> s, id |-> NULL,
                          result |-> "returned", again |-> FALSE]
          /\ UNCHANGED <<auxVars, storeVars, now, pc, otherUserId, room, loading,
                         how, messages, snapshot, sub, feed, sends>>
     ELSE SendStart(s, text)

\* ------------------------------------------------------------------ typing
\* ChatWindow.handleMessageChange, one keystroke: setMessage, setIsTyping(true),
\* then the render and the typing effect
HandleMessageChange(s) ==
  /\ pc[s] \in {"ready", "failed"}
  /\ ~loading[s]
  /\ keys < MaxKeys
  /\ keys' = keys + 1
  /\ lastKeyAt' = [lastKeyAt EXCEPT ![s] = now]
  /\ isTyping' = [isTyping EXCEPT ![s] = TRUE]
  /\ typing_indicators' = TypingAfter(s, TRUE)
  /\ tfeed' = Fanout(tfeed, TypingEventsOf(s, TRUE))
  /\ typingTimeout' = [typingTimeout EXCEPT ![s] = now + QuietWindow]
  /\ burst' = [burst EXCEPT ![s] = IF isTyping[s] THEN @ + 1 ELSE 1]
  /\ UNCHANGED <<storeVars, now, pc, otherUserId, room, loading, how, msgVars,
                 tsub, isOtherUserTyping, clearTimers, lastTypingAt, inbox>>

\* the timeout of the typing effect: setIsTyping(false); setTyping(false)
TypingTimeoutFires(s) ==
  /\ typingTimeout[s] # NULL
  /\ typingTimeout[s] <= now
  /\ isTyping' = [isTyping EXCEPT ![s] = FALSE]
  /\ typingTimeout' = [typingTimeout EXCEPT ![s] = NULL]
  /\ typing_indicators' = TypingAfter(s, FALSE)
  /\ tfeed' = Fanout(tfeed, TypingEventsOf(s, FALSE))
  /\ lastKeyAt' = [lastKeyAt EXCEPT ![s] = NULL]
  /\ UNCHANGED <<storeVars, now, pc, otherUserId, room, loading, how, msgVars,
                 tsub, isOtherUserTyping, clearTimers, burst, lastTypingAt,
                 keys, inbox>>

\* the handler of the typing channel, event '*':
\*   if (payload.new?.user_id === otherUserId) {
\*     setIsOtherUserTyping(true); setTimeout(..., 3000) }
\* and, if the flag changed, the render of the window
DeliverTyping(s) ==
  /\ tfeed[s] # << >>
  /\ LET e == Head(tfeed[s])
         hit == /\ pc[s] # "closed"
                /\ \E c \in tsub[s] : c.room_id = e.room_id /\ e.user_id = c.other
         renders == hit /\ ~isOtherUserTyping[s]
     IN /\ isOtherUserTyping' = [isOtherUserTyping EXCEPT ![s] = hit \/ @]
        /\ clearTimers' = [clearTimers EXCEPT ![s] =
                             IF hit THEN StartAutoClear(@, now) ELSE @]
        /\ lastTypingAt' = [lastTypingAt EXCEPT ![s] = IF hit THEN now ELSE @]
        /\ TypingEffect(s, renders /\ isTyping[s], [tfeed EXCEPT ![s] = Tail(@)])
  /\ UNCHANGED <<storeVars, now, pc, otherUserId, room, loading, how, msgVars,
                 tsub, isTyping, keys, lastKeyAt, inbox>>

\* a timeout started by the typing handler runs: setIsOtherUserTyping(false)
\* and, if the flag changed, the render of the window
AutoClearFires(s) ==
  /\ \E d \in clearTimers[s] :
       /\ d <= now
       /\ clearTimers' = [clearTimers EXCEPT ![s] = @ \ {d}]
  /\ isOtherUserTyping' = [isOtherUserTyping EXCEPT ![s] = FALSE]
  /\ TypingEffect(s, isOtherUserTyping[s] /\ isTyping[s] /\ pc[s] # "closed", tfeed)
  /\ UNCHANGED <<storeVars, now, pc, otherUserId, room, loading, how, msgVars,
                 tsub, isTyping, lastTypingAt, keys, lastKeyAt, inbox>>

\* ------------------------------------------------------------ MessagesList
\* loadChatRooms is called: at mount, and by the handler of every
\* chat_messages event; a call does not wait for the one before it
LoadChatRooms(limit) ==
  /\ Len(inbox.loads) < limit
  /\ inbox' = [inbox EXCEPT !.loads = Append(@, [stage |-> "first", data |-> << >>])]
  /\ UNCHANGED <<storeVars, now, pc, otherUserId, room, loading, how, msgVars,
                 typingVars>>

\* the first query answers: the rooms with participant1_id = user.id
RoomsFirst(n) ==
  /\ n \in DOMAIN inbox.loads
  /\ inbox.loads[n].stage = "first"
  /\ \E data \in RoomsAnswers(chat_rooms, chat_messages, InboxUser,
                               "participant1_id", "participant2_id") :
       inbox' = [inbox EXCEPT !.loads[n] = [stage |-> "second", data |-> data]]
  /\ UNCHANGED <<storeVars, now, pc, otherUserId, room, loading, how, msgVars,
                 typingVars>>

\* the second query answers: the rooms with participant2_id = user.id; the
\* two answers are merged and sorted, setRooms(allRooms), setLoading(false)
RoomsSecond(n) ==
  /\ n \in DOMAIN inbox.loads
  /\ inbox.loads[n].stage = "second"
  /\ \E data2 \in RoomsAnswers(chat_rooms, chat_messages, InboxUser,
                                "participant2_id", "participant1_id") :
       inbox' = [loads |-> [inbox.loads EXCEPT ![n].stage = "done"],
                 rooms |-> SortByActivity(inbox.loads[n].data \o data2),
                 loading |-> FALSE]
  /\ UNCHANGED <<storeVars, now, pc, otherUserId, room, loading, how, msgVars,
                 typingVars>>

\* one of the two queries answers with an error: it is logged, rooms keep
\* their value, setLoading(false)
RoomsError(n) ==
  /\ n \in DOMAIN inbox.loads
  /\ inbox.loads[n].stage \in {"first", "second"}
  /\ inbox' = [inbox EXCEPT !.loads[n].stage = "failed", !.loading = FALSE]
  /\ UNCHANGED <<storeVars, now, pc, otherUserId, room, loading, how, msgVars,
                 typingVars>>

\* ------------------------------------------- dependencies change, unmount
\* useEffect(..., [user, otherUserId]): the counterpart changes and the effect
\* runs again.  The effect returns nothing (the function that unsubscribes
\* is the return value of the async initializeChat, which nobody reads), so
\* React has no cleanup to run: the channels stay subscribed, and room,
\* messages and loading keep their values until the new run sets them.
\* (The change is taken once the previous initializeChat has come to its
\* end; a change during it starts a second run beside the first.)
ChangeCounterpart(s, o) ==
  /\ pc[s] \in {"ready", "failed"}
  /\ o # SessUser[s]
  /\ o # otherUserId[s]
  /\ otherUserId' = [otherUserId EXCEPT ![s] = o]
  /\ pc' = [pc EXCEPT ![s] = "lookup"]
  /\ how' = [how EXCEPT ![s] = "none"]
  /\ UNCHANGED <<auxVars, storeVars, now, room, loading, msgVars>>

\* the component unmounts: its state is gone, the ChatWindow effect clears
\* its timeout; useChat's effect has no cleanup, the channels stay subscribed
Unmount(s) ==
  /\ pc[s] \in {"ready", "failed"}
  /\ pc' = [pc EXCEPT ![s] = "closed"]
  /\ room' = [room EXCEPT ![s] = NULL]
  /\ messages' = [messages EXCEPT ![s] = <<>>]
  /\ isOtherUserTyping' = [isOtherUserTyping EXCEPT ![s] = FALSE]
  /\ isTyping' = [isTyping EXCEPT ![s] = FALSE]
  /\ typingTimeout' = [typingTimeout EXCEPT ![s] = NULL]
  /\ lastKeyAt' = [lastKeyAt EXCEPT ![s] = NULL]
  /\ UNCHANGED <<storeVars, now, otherUserId, loading, how, snapshot, sub, feed,
                 sends, lastCall, typing_indicators, tsub, tfeed, clearTimers,
                 burst, lastTypingAt, keys, inbox>>

\* -------------------------------------------------------------------- time
\* a second passes; a timeout that is due runs before the clock moves on
Tick(limit) ==
  /\ now < limit
  /\ \A s \in Sessions :
       /\ \A d \in clearTimers[s] : d > now
       /\ typingTimeout[s] = NULL \/ typingTimeout[s] > now
  /\ now' = now + 1
  /\ UNCHANGED <<auxVars, storeVars, pc, otherUserId, room, loading, how, msgVars>>

\* ------------------------------------------------ deleteMessage, markAsRead
\* deleteMessage(id), the update executed by the store.  The answer of the
\* update is not read and supabase-js reports errors in that answer instead
\* of throwing, so the call resolves whatever the store did.  (A request
\* that never reaches the store changes no variable: a stuttering step.)
DeleteMessage(s, id) ==
  /\ pc[s] # "idle"
  /\ id \in DOMAIN chat_messages
  /\ chat_messages' = UpdateMessages(chat_messages, SessUser[s], id, SessUser[s],
                                     "deleted_at", ClientClock(SessUser[s]))
  /\ lastCall' = [op |-> "delete", sess |-> s, id |-> id, result |-> "resolved",
                  again |-> lastCall.op = "delete" /\ lastCall.sess = s
                            /\ lastCall.id = id]
  /\ UNCHANGED <<auxVars, chat_rooms, now, pc, otherUserId, room, loading, how,
                 messages, snapshot, sub, feed, sends>>

\* markAsRead(id): same shape, filtered on sender_id = otherUserId
MarkAsRead(s, id) ==
  /\ pc[s] # "idle"
  /\ id \in DOMAIN chat_messages
  /\ chat_messages' = UpdateMessages(chat_messages, SessUser[s], id, otherUserId[s],
                                     "read_at", ClientClock(SessUser[s]))
  /\ lastCall' = [op |-> "read", sess |-> s, id |-> id, result |-> "resolved",
                  again |-> lastCall.op = "read" /\ lastCall.sess = s
                            /\ lastCall.id = id]
  /\ UNCHANGED <<auxVars, chat_rooms, now, pc, otherUserId, room, loading, how,
                 messages, snapshot, sub, feed, sends>>

\* ---------------------------------------------------------- specifications
\* the two windows of one conversation, and its two participants
Chatters == {"s1", "s2"}
ChatUsers == {1, 2}

\* room resolution alone: every window, every counterpart
NextRooms ==
  \/ \E s \in Sessions, o \in Users : Mount(s, o)
  \/ \E s \in Sessions : Lookup(s)
  \/ \E s \in Sessions : LookupError(s)
  \/ \E s \in Sessions : InsertRoom(s)
  \/ \E s \in Sessions : InsertRoomError(s)
  \/ \E s \in Sessions : Requery(s)
  \/ \E s \in Sessions : RequeryError(s)

SpecRooms == Init /\ [][NextRooms]_vars

\* one conversation: opening, history, sends, realtime echoes, rollback
NextSend ==
  \/ \E s \in Chatters, o \in ChatUsers : Mount(s, o)
  \/ \E s \in Chatters : Lookup(s)
  \/ \E s \in Chatters : InsertRoom(s)
  \/ \E s \in Chatters : Requery(s)
  \/ \E s \in Chatters : LoadQuery(s)
  \/ \E s \in Chatters : LoadError(s)
  \/ \E s \in Chatters : LoadDone(s)
  \/ \E s \in Chatters, c \in Contents : SendStart(s, c)
  \/ \E k \in 1..MaxSends : SendOk(k)
  \/ \E k \in 1..MaxSends : SendFail(k)
  \/ \E s \in Chatters : Deliver(s)

SpecSend == Init /\ [][NextSend]_vars

\* one conversation: opening, history, sends, echoes, delete and read marks
Next ==
  \/ \E s \in Chatters, o \in ChatUsers : Mount(s, o)
  \/ \E s \in Chatters : Lookup(s)
  \/ \E s \in Chatters : InsertRoom(s)
  \/ \E s \in Chatters : Requery(s)
  \/ \E s \in Chatters : LoadQuery(s)
  \/ \E s \in Chatters : LoadDone(s)
  \/ \E s \in Chatters : Len(sends) < MaxEdited /\ SendStart(s, "hi")
  \/ \E k \in 1..MaxEdited : SendOk(k)
  \/ \E s \in Chatters : Deliver(s)
  \/ \E s \in Chatters, id \in 1..MaxEdited : DeleteMessage(s, id)
  \/ \E s \in Chatters, id \in 1..MaxEdited : MarkAsRead(s, id)

Spec == Init /\ [][Next]_vars

\* the conversation of users 1 and 2 with a clock that advances: the order
\* of the local lists
NextOrder ==
  \/ \E s \in Chatters : \E o \in ChatUsers : Mount(s, o)
  \/ \E s \in Chatters : Lookup(s)
  \/ \E s \in Chatters : InsertRoom(s)
  \/ \E s \in Chatters : Requery(s)
  \/ \E s \in Chatters : LoadQuery(s)
  \/ \E s \in Chatters : LoadDone(s)
  \/ \E s \in Chatters : Len(sends) < MaxOrdered /\ SendStart(s, "hi")
  \/ \E k \in 1..MaxOrdered : SendOk(k)
  \/ \E s \in Chatters : Deliver(s)
  \/ Tick(MaxTime)

SpecOrder == Init /\ [][NextOrder]_vars

\* windows that change their counterpart and close: what stays subscribed
NextClose ==
  \/ \E s \in Chatters : \E o \in ChatUsers : Mount(s, o)
  \/ \E s \in Chatters : Lookup(s)
  \/ \E s \in Chatters : InsertRoom(s)
  \/ \E s \in Chatters : Requery(s)
  \/ \E s \in Chatters : LoadQuery(s)
  \/ \E s \in Chatters : LoadDone(s)
  \/ \E s \in Chatters : \E o \in Users : ChangeCounterpart(s, o)
  \/ \E s \in Chatters : Unmount(s)
  \/ \E s \in Chatters : Len(sends) < MaxLate /\ SendStart(s, "hi")
  \/ \E k \in 1..MaxLate : SendOk(k)
  \/ \E s \in Chatters : Deliver(s)

SpecClose == Init /\ [][NextClose]_vars

\* the conversation of users 1 and 2 with every send made through the form
\* of the chat window
NextWindow ==
  \/ \E s \in Chatters : \E o \in ChatUsers : Mount(s, o)
  \/ \E s \in Chatters : Lookup(s)
  \/ \E s \in Chatters : InsertRoom(s)
  \/ \E s \in Chatters : Requery(s)
  \/ \E s \in Chatters : LoadQuery(s)
  \/ \E s \in Chatters : LoadError(s)
  \/ \E s \in Chatters : LoadDone(s)
  \/ \E s \in Chatters : \E text \in Texts : HandleSendMessage(s, text)
  \/ \E k \in 1..MaxSends : SendOk(k)
  \/ \E k \in 1..MaxSends : SendFail(k)
  \/ \E s \in Chatters : Deliver(s)

SpecWindow == Init /\ [][NextWindow]_vars

\* the windows whose user types in SpecTyping
Typists == {"s2"}

\* the conversation of users 1 and 2, user 2 typing and user 1 watching:
\* keystrokes, typing rows, typing events and the two kinds of timeout, on a
\* clock
NextTyping ==
  \/ \E s \in Chatters : \E o \in ChatUsers : Mount(s, o)
  \/ \E s \in Chatters : Lookup(s)
  \/ \E s \in Chatters : InsertRoom(s)
  \/ \E s \in Chatters : Requery(s)
  \/ \E s \in Chatters : LoadQuery(s)
  \/ \E s \in Chatters : LoadDone(s)
  \/ \E s \in Typists : HandleMessageChange(s)
  \/ \E s \in Typists : Unmount(s)
  \/ \E s \in Chatters : TypingTimeoutFires(s)
  \/ \E s \in Chatters : DeliverTyping(s)
  \/ \E s \in Chatters : AutoClearFires(s)
  \/ Tick(TypingHorizon)

SpecTyping == Init /\ [][NextTyping]_vars

\* users 1 and 2 open chats with any user and send as soon as the room is
\* resolved; user 2's MessagesList loads its rooms.  (The history loads of
\* the chat windows are left unanswered: the list reads the store only.)
NextInbox ==
  \/ \E s \in Chatters : \E o \in Users : Mount(s, o)
  \/ \E s \in Chatters : Lookup(s)
  \/ \E s \in Chatters : InsertRoom(s)
  \/ \E s \in Chatters : Requery(s)
  \/ \E s \in Chatters : Len(sends) < MaxInboxSends /\ SendStart(s, "hi")
  \/ \E k \in 1..MaxInboxSends : SendOk(k)
  \/ LoadChatRooms(MaxLoads)
  \/ \E n \in 1..MaxLoads : RoomsFirst(n)
  \/ \E n \in 1..MaxLoads : RoomsSecond(n)
  \/ \E n \in 1..MaxLoads : RoomsError(n)
  \/ Tick(MaxTime)

SpecInbox == Init /\ [][NextInbox]_vars

\* users 1 and 2 type in their room and close their windows: the typing rows
\* the two leave in the table over time.  (No window reads its typing feed
\* here; what a delivered event adds is one more run of the typing effect.)
NextRows ==
  \/ \E s \in Chatters : \E o \in ChatUsers : Mount(s, o)
  \/ \E s \in Chatters : Lookup(s)
  \/ \E s \in Chatters : InsertRoom(s)
  \/ \E s \in Chatters : Requery(s)
  \/ \E s \in Chatters : LoadQuery(s)
  \/ \E s \in Chatters : LoadDone(s)
  \/ \E s \in Chatters : HandleMessageChange(s)
  \/ \E s \in Chatters : TypingTimeoutFires(s)
  \/ \E s \in Chatters : Unmount(s)
  \/ Tick(TypingHorizon)

SpecRows == Init /\ [][NextRows]_vars

\* user 2 writes (sends over time, deletes own messages) while user 1 opens
\* the chat: history loads taken before, between and after the writes
NextHistory ==
  \/ \E s \in Chatters : \E o \in ChatUsers : Mount(s, o)
  \/ \E s \in Chatters : Lookup(s)
  \/ \E s \in Chatters : InsertRoom(s)
  \/ \E s \in Chatters : Requery(s)
  \/ LoadQuery("s1")
  \/ LoadDone("s1")
  \/ Len(sends) < MaxOrdered /\ SendStart("s2", "hi")
  \/ \E k \in 1..MaxOrdered : SendOk(k)
  \/ Deliver("s1")
  \/ \E id \in 1..MaxOrdered : DeleteMessage("s2", id)
  \/ Tick(MaxTime)

SpecHistory == Init /\ [][NextHistory]_vars

\* user 2 types in the chat with user 1 while user 1 sends: messages reach
\* user 2's window during and after the quiet window of a keystroke
NextQuiet ==
  \/ \E s \in Chatters : \E o \in ChatUsers : Mount(s, o)
  \/ \E s \in Chatters : Lookup(s)
  \/ \E s \in Chatters : InsertRoom(s)
  \/ \E s \in Chatters : Requery(s)
  \/ \E s \in Chatters : LoadQuery(s)
  \/ \E s \in Chatters : LoadDone(s)
  \/ HandleMessageChange("s2")
  \/ TypingTimeoutFires("s2")
  \/ Len(sends) < MaxLate /\ SendStart("s1", "hi")
  \/ \E k \in 1..MaxLate : SendOk(k)
  \/ \E s \in Chatters : Deliver(s)
  \/ Tick(QuietHorizon)

SpecQuiet == Init /\ [][NextQuiet]_vars

\* user 1 writes to user 2 and deletes own messages; user 2's MessagesList
\* loads its rooms before and after
NextPreview ==
  \/ \E s \in Chatters : \E o \in ChatUsers : Mount(s, o)
  \/ \E s \in Chatters : Lookup(s)
  \/ \E s \in Chatters : InsertRoom(s)
  \/ \E s \in Chatters : Requery(s)
  \/ Len(sends) < MaxLate /\ SendStart("s1", "hi")
  \/ \E k \in 1..MaxLate : SendOk(k)
  \/ \E id \in 1..MaxLate : DeleteMessage("s1", id)
  \/ LoadChatRooms(MaxLoads)
  \/ \E n \in 1..MaxLoads : RoomsFirst(n)
  \/ \E n \in 1..MaxLoads : RoomsSecond(n)
  \/ \E n \in 1..MaxLoads : RoomsError(n)

SpecPreview == Init /\ [][NextPreview]_vars

\* handleSendMessage with a text that is not blank, in a window without a
\* room: sendMessage returns at `if (!room || !user) return`, then
\* setMessage(''), setIsTyping(false), and setTyping(false) returns at the
\* same test
SendRefused(s, text) ==
  /\ pc[s] \in {"ready", "failed"}
  /\ ~loading[s]
  /\ Trim(text) # << >>
  /\ room[s] = NULL
  /\ lastCall' = [op |-> "send", sess |-> s, id |-> NULL,
                  result |-> "returned", again |-> FALSE]
  /\ isTyping' = [isTyping EXCEPT ![s] = FALSE]
  /\ typingTimeout' = [typingTimeout EXCEPT ![s] = NULL]
  /\ lastKeyAt' = [lastKeyAt EXCEPT ![s] = NULL]
  /\ UNCHANGED <<storeVars, now, pc, otherUserId, room, loading, how, messages,
                 snapshot, sub, feed, sends, typing_indicators, tsub, tfeed,
                 isOtherUserTyping, clearTimers, burst, lastTypingAt, keys,
                 inbox>>

\* one conversation whose store calls may fail during room resolution, and
\* whose users submit texts once the form is shown
NextFail ==
  \/ \E s \in Chatters : \E o \in ChatUsers : Mount(s, o)
  \/ \E s \in Chatters : Lookup(s)
  \/ \E s \in Chatters : LookupError(s)
  \/ \E s \in Chatters : InsertRoom(s)
  \/ \E s \in Chatters : InsertRoomError(s)
  \/ \E s \in Chatters : Requery(s)
  \/ \E s \in Chatters : RequeryError(s)
  \/ \E s \in Chatters : LoadQuery(s)
  \/ \E s \in Chatters : LoadDone(s)
  \/ \E s \in Chatters : \E text \in Texts : HandleSendMessage(s, text)
  \/ \E s \in Chatters : \E text \in Texts : SendRefused(s, text)
  \/ \E k \in 1..MaxSends : SendOk(k)
  \/ \E s \in Chatters : Deliver(s)

SpecFail == Init /\ [][NextFail]_vars

\* users 1 and 2 open chats with any user while user 2's MessagesList
\* reloads, a reload starting before the one before it has ended
NextReload ==
  \/ \E s \in Chatters : \E o \in Users : Mount(s, o)
  \/ \E s \in Chatters : Lookup(s)
  \/ \E s \in Chatters : InsertRoom(s)
  \/ \E s \in Chatters : Requery(s)
  \/ LoadChatRooms(MaxOverlap)
  \/ \E n \in 1..MaxOverlap : RoomsFirst(n)
  \/ \E n \in 1..MaxOverlap : RoomsSecond(n)
  \/ \E n \in 1..MaxOverlap : RoomsError(n)

SpecReload == Init /\ [][NextReload]_vars

\* ------------------------------------------------------------------ claims
\* initializeChat has left room resolution, with a room or with an error
Finished(s) == pc[s] \in {"load", "loaded", "ready", "failed"}

\* a store call of the resolution failed for a reason other than the race
StoreFault(s) == how[s] \in {"insert-error", "requery-error"}

SamePair(s, t) ==
  {SessUser[s], otherUserId[s]} = {SessUser[t], otherUserId[t]}

\* C1: when two windows resolve the room of the same pair of users, under
\* any interleaving of their lookup, insert and re-query steps (and no store
\* call failing for another reason), both hold a room, the same one, and the
\* store holds exactly one room row for the pair.
C1_ConcurrentResolveAgree ==
  \A s, t \in Sessions :
     ( /\ s # t
       /\ Finished(s) /\ Finished(t)
       /\ SamePair(s, t)
       /\ ~StoreFault(s) /\ ~StoreFault(t) )
     => /\ room[s] # NULL
        /\ room[s] = room[t]
        /\ Cardinality(RoomsOfPair(chat_rooms, SessUser[s], otherUserId[s])) = 1

\* the race happened: A created the room, B lost the insert and recovered it
C1_Witness ==
  \E s, t \in Sessions :
     /\ SessUser[s] # SessUser[t] /\ SamePair(s, t)
     /\ how[s] = "created" /\ how[t] = "recovered"
     /\ room[s] = room[t] /\ room[s] # NULL

\* C2: the store never holds two rooms for one unordered pair of users,
\* whatever the stored order, and a step taken while the pair has a room
\* leaves the rooms of the pair as they are (no new row).
C2_OneRoomPerPair ==
  [][\A a, b \in Users :
       /\ Cardinality(RoomsOfPair(chat_rooms', a, b)) <= 1
       /\ RoomsOfPair(chat_rooms, a, b) # {}
            => RoomsOfPair(chat_rooms', a, b) = RoomsOfPair(chat_rooms, a, b)]_vars

\* three opens of one conversation: one created the room, one found nothing
\* at lookup and hit the unique index, one found the room; one room exists
C2_Witness ==
  \E s, t, u \in Sessions :
     /\ SamePair(s, t) /\ SamePair(s, u)
     /\ how[s] = "created" /\ how[t] = "recovered" /\ how[u] = "found"
     /\ Cardinality(RoomsOfPair(chat_rooms, SessUser[s], otherUserId[s])) = 1

\* positions of the local list of a window that show the message of a send
EntriesOf(s, k) == {i \in DOMAIN messages[s] : messages[s][i].sid = k}

\* C3: once the store accepted a send and the realtime INSERT event of that
\* message was delivered to the sender's own window, the window's list
\* holds exactly one entry for the message.
C3_EchoNoSecondEntry ==
  \A k \in DOMAIN sends :
     sends[k].state = "accepted" /\ sends[k].echoed
     => Cardinality(EntriesOf(sends[k].sess, k)) = 1

\* C4: a send the store rejected has no entry left in the sender's list and
\* no row in the store, and sendMessage threw.
C4_FailedSendRolledBack ==
  \A k \in DOMAIN sends :
     sends[k].state = "rejected"
     => /\ EntriesOf(sends[k].sess, k) = {}
        /\ \A i \in DOMAIN chat_messages : chat_messages[i].sid # k
        /\ sends[k].result = "thrown"

\* a send was rejected while the window shows a message of another text
C4_Witness ==
  \E k \in DOMAIN sends :
     /\ sends[k].state = "rejected" /\ sends[k].result = "thrown"
     /\ \E i \in DOMAIN messages[sends[k].sess] :
          messages[sends[k].sess][i].content # sends[k].msg.content

\* the list without the entries of one send
WithoutSend(list, k) == SelectSeqBy(list, {m \in Range(list) : m.sid # k})

\* C5: the rollback of a failed send removes the optimistic entry of that
\* send and nothing else: every other entry of the list is still there.
C5_RollbackRemovesOnlyOwnEntry ==
  [][\A k \in DOMAIN sends :
       sends[k].state = "pending" /\ sends'[k].state = "rejected"
       => messages'[sends[k].sess] = WithoutSend(messages[sends[k].sess], k)]_vars

\* C6: no window renders the body of a message whose row is soft-deleted
\* (windows that loaded or received it before the delete included), and the
\* deleted row is still part of every answer of the history query.
C6_DeletedBodyNotRendered ==
  /\ \A s \in Sessions : \A i \in DOMAIN messages[s] :
        LET msg == messages[s][i] IN
          ( /\ msg.id \in DOMAIN chat_messages
            /\ chat_messages[msg.id].deleted_at # NULL )
          => Rendered(msg) # msg.content
  /\ \A j \in DOMAIN chat_messages :
        chat_messages[j].deleted_at # NULL
        => \A q \in HistoryAnswers(chat_messages, chat_messages[j].room_id) :
              \E i \in DOMAIN q : q[i] = j

\* the call that completed last was made by a user other than the sender
ByNonSender(call) ==
  /\ call.id \in DOMAIN chat_messages
  /\ SessUser[call.sess] # chat_messages[call.id].sender_id

C8_SoftDeleteBySenderOnly ==
  [][/\ Len(chat_messages') >= Len(chat_messages)
     /\ \A i \in DOMAIN chat_messages :
          /\ chat_messages'[i].id = chat_messages[i].id
          /\ chat_messages'[i].content = chat_messages[i].content
          /\ chat_messages[i].deleted_at # NULL => chat_messages'[i].deleted_at # NULL
          /\ chat_messages[i].deleted_at = NULL /\ chat_messages'[i].deleted_at # NULL
               => \E s \in Sessions : /\ DeleteMessage(s, i)
                                      /\ SessUser[s] = chat_messages[i].sender_id
     /\ lastCall'.op = "delete" /\ ~ByNonSender(lastCall')
          => chat_messages'[lastCall'.id].deleted_at # NULL]_vars

\* the sender deleted a message: the row is there, marked deleted
C8_Witness ==
  /\ lastCall.op = "delete" /\ ~ByNonSender(lastCall)
  /\ chat_messages[lastCall.id].deleted_at # NULL
  /\ chat_messages[lastCall.id].id = lastCall.id

C10_ReceiverMarksRead ==
  ( /\ lastCall.op = "read"
    /\ ByNonSender(lastCall)
    /\ chat_messages[lastCall.id].sender_id = otherUserId[lastCall.sess]
    /\ chat_messages[lastCall.id].room_id = room[lastCall.sess] )
  => chat_messages[lastCall.id].read_at # NULL

\* created_at never decreases along the list
Chronological(list) ==
  \A i, j \in DOMAIN list : i < j => list[i].created_at <= list[j].created_at

\* C11: in every reachable state the local message list of a session is in
\* non-decreasing order of creation time, whatever the interleaving of the
\* history load, the session's own sends and the INSERT events of the other
\* participant's messages.
C11_LocalListChronological ==
  \A s \in Sessions : Chronological(messages[s])

\* the room of the session's user and its current counterpart, NULL if none
CurrentRoom(s) == FindRoom(chat_rooms, SessUser[s], otherUserId[s])

\* C12: closing a conversation view (unmount, or a change of counterpart)
\* unsubscribes its message feed and its typing feed: a closed session has
\* no subscription left, and a session that moved to another counterpart
\* has none of the previous conversation.
C12_CloseUnsubscribes ==
  \A s \in Sessions :
    /\ pc[s] = "closed" => sub[s] = {} /\ tsub[s] = {}
    /\ pc[s] \notin {"idle", "closed"} =>
         /\ sub[s] \subseteq {CurrentRoom(s)}
         /\ \A t \in tsub[s] : t.other = otherUserId[s]

\* C13: once the counterpart changed or the view closed, a realtime event of
\* the previous conversation is not appended to the current message list,
\* and sendMessage writes to the room of the current counterpart.
C13_LateResultsIgnored ==
  [][\A s \in Sessions :
       /\ (Deliver(s) /\ Head(feed[s]).room_id # CurrentRoom(s))
            => messages'[s] = messages[s]
       /\ \A c \in Contents : SendStart(s, c) => room[s] = CurrentRoom(s)]_vars

\* sendMessage's guard lets a call through
SendAccepted(s) == room[s] # NULL

\* C14: when a step of initialisation fails (room resolution, history load,
\* subscription setup) the session halts without a partial Ready state: a
\* session whose initialisation failed does not accept sendMessage.
C14_NoPartialReady ==
  \A s \in Sessions : pc[s] = "failed" => ~SendAccepted(s)

\* the rows the store holds for send k
RowsOfSend(k) == {i \in DOMAIN chat_messages : chat_messages[i].sid = k}

\* two sends of one window with the same text, both written by the store,
\* and no write of that window failed
AcceptedTwice(j, k) ==
  /\ j # k
  /\ sends[j].sess = sends[k].sess
  /\ sends[j].msg.content = sends[k].msg.content
  /\ sends[j].state = "accepted" /\ sends[k].state = "accepted"
  /\ \A n \in DOMAIN sends :
       sends[n].sess = sends[j].sess => sends[n].state # "rejected"

\* C17: when one user sends the same text twice and both writes succeed, the
\* store holds two distinct rows, one per send, and both sends are visible
\* in the sender's window: neither is suppressed, merged or removed as a
\* duplicate of the other.
C17_SameTextTwiceBothKept ==
  \A j, k \in DOMAIN sends :
    AcceptedTwice(j, k) =>
      /\ RowsOfSend(j) # {} /\ RowsOfSend(k) # {}
      /\ RowsOfSend(j) \cap RowsOfSend(k) = {}
      /\ EntriesOf(sends[j].sess, j) # {}
      /\ EntriesOf(sends[j].sess, k) # {}
      /\ EntriesOf(sends[j].sess, j) \cap EntriesOf(sends[j].sess, k) = {}

\* the same text was sent twice from one window and both writes succeeded
C17_Witness ==
  \E j, k \in DOMAIN sends : AcceptedTwice(j, k)

\* the text has no character that is not white space
Blank(text) == \A i \in DOMAIN text : IsSpace(text[i])

\* C18: a send with empty or white-space-only text is rejected locally: the
\* step adds no optimistic entry and starts no store write, and no send,
\* list entry or row ever carries such a text.
C18_BlankSendRejected ==
  /\ [][\A s \in Sessions : \A text \in Texts :
          (HandleSendMessage(s, text) /\ Blank(text))
            => /\ messages' = messages
               /\ sends' = sends
               /\ chat_messages' = chat_messages]_vars
  /\ [](\A k \in DOMAIN sends : ~Blank(sends[k].msg.content))

\* a blank text was submitted in a window that has sent a message
C18_Witness ==
  /\ lastCall.op = "submit" /\ lastCall.result = "returned"
  /\ \E k \in DOMAIN sends : sends[k].sess = lastCall.sess

\* a typing signal of the counterpart is the next event of the window's
\* typing feed
SignalNext(s) ==
  /\ tfeed[s] # << >>
  /\ \E c \in tsub[s] : /\ c.room_id = Head(tfeed[s]).room_id
                        /\ c.other = Head(tfeed[s]).user_id

\* C15: when the counterpart's typing signal reached the observer and no
\* further signal followed for longer than the passive-expiry window, with
\* no setTyping(false) and no removal event needed, the observer's "other is
\* typing" flag is false; and the flag goes from false to true only when a
\* new typing signal of the counterpart is delivered.
C15_IdleIndicatorExpires ==
  /\ [](\A s \in Sessions :
          (lastTypingAt[s] # NULL /\ now > lastTypingAt[s] + PassiveExpiry)
            => ~isOtherUserTyping[s])
  /\ [][\A s \in Sessions :
          (~isOtherUserTyping[s] /\ isOtherUserTyping'[s])
            => DeliverTyping(s) /\ SignalNext(s)]_vars

\* user 2 typed and closed the window before its timeout ran, so no
\* setTyping(false) was executed and the typing row is still in the table;
\* the observer got the signal more than the window ago, has no event
\* waiting, and its flag is off
C15_Witness ==
  /\ pc["s2"] = "closed"
  /\ TypingRow(typing_indicators, room["s1"], otherUserId["s1"]) # {}
  /\ lastTypingAt["s1"] # NULL
  /\ now > lastTypingAt["s1"] + PassiveExpiry
  /\ tfeed["s1"] = << >>
  /\ ~isOtherUserTyping["s1"]

\* C16: within one typing burst (isTyping stays true) the chat window calls
\* setTyping(true) at most once, at the start of the burst, however many
\* keystrokes and renders the burst has.
C16_OneTypingWritePerBurst ==
  \A s \in Sessions : burst[s] <= 1

\* the rooms of the store in which the user is a participant
RoomsOf(uid) ==
  {i \in DOMAIN chat_rooms : \/ chat_rooms[i].participant1_id = uid
                             \/ chat_rooms[i].participant2_id = uid}

\* the participant of room i who is not uid
Counterpart(i, uid) ==
  IF chat_rooms[i].participant1_id = uid
  THEN chat_rooms[i].participant2_id ELSE chat_rooms[i].participant1_id

\* the answer of the first query of load n is what the store would answer
\* when the second query is answered
FirstCurrent(n) ==
  {inbox.loads[n].data[k].id : k \in DOMAIN inbox.loads[n].data}
    = {i \in DOMAIN chat_rooms : chat_rooms[i].participant1_id = InboxUser}

InboxCorrect(list) ==
  /\ {list[k].id : k \in DOMAIN list} = RoomsOf(InboxUser)
  /\ Len(list) = Cardinality(RoomsOf(InboxUser))
  /\ \A k \in DOMAIN list :
       /\ list[k].participant = Counterpart(list[k].id, InboxUser)
       /\ list[k].participant # InboxUser
       /\ list[k].last_message_at = chat_rooms[list[k].id].last_message_at
  /\ \A j, k \in DOMAIN list :
       j < k => list[j].last_message_at >= list[k].last_message_at

\* C19: the list that a load of the inbox displays holds every room in
\* which the user is participant 1 or participant 2, each exactly once, each
\* paired with the other participant (never the user), in descending order of
\* the room's last-activity timestamp.
C19_InboxListsEveryRoomOnce ==
  [][\A n \in 1..MaxLoads :
       (RoomsSecond(n) /\ FirstCurrent(n)) => InboxCorrect(inbox'.rooms)]_vars

\* the list shows a room in which the user is participant 1 and a room in
\* which the user is participant 2, the second one with the later activity
C19_Witness ==
  \E j, k \in DOMAIN inbox.rooms :
    /\ inbox.rooms[j].participant2_id = InboxUser
    /\ inbox.rooms[k].participant1_id = InboxUser
    /\ inbox.rooms[j].last_message_at > inbox.rooms[k].last_message_at

\* C20: for every room of the inbox that has messages, the preview shown is
\* the room's latest message, the one with the greatest creation time.
C20_PreviewIsLatest ==
  \A k \in DOMAIN inbox.rooms :
    \A i \in DOMAIN inbox.rooms[k].latest_message :
      inbox.rooms[k].latest_message[i].created_at
        <= LatestMessage(inbox.rooms[k]).created_at

\* the rows a step adds to or takes from typing_indicators
TypingDelta == (typing_indicators' \ typing_indicators)
                 \cup (typing_indicators \ typing_indicators')

\* window s calls setTyping in this step
SetsTyping(s) == HandleMessageChange(s) \/ TypingTimeoutFires(s)

\* C21: the typing table holds at most one row per (room, user); a repeated
\* setTyping(true) leaves one row, with the new time; setTyping(false) leaves
\* no row of that user in that room; and a step that changes the table is a
\* setTyping of the user whose id the changed rows carry.
C21_OneTypingRowPerUser ==
  /\ [](\A x, y \in typing_indicators :
          (x.room_id = y.room_id /\ x.user_id = y.user_id) => x = y)
  /\ [][/\ \A x \in TypingDelta :
             \E s \in Sessions : SetsTyping(s) /\ x.user_id = SessUser[s]
        /\ \A s \in Sessions :
             /\ (HandleMessageChange(s) /\ room[s] # NULL) =>
                  TypingRow(typing_indicators', room[s], SessUser[s])
                    = {[room_id |-> room[s], user_id |-> SessUser[s],
                        updated_at |-> ClientClock(SessUser[s])]}
             /\ TypingTimeoutFires(s) =>
                  TypingRow(typing_indicators', room[s], SessUser[s]) = {}]_vars

\* one user's row has been in the table for longer than the expiry window
\* (its window was closed) when the other user's keystroke wrote that user's
\* row, firing the cleanup trigger
C21_Witness ==
  \E x, y \in typing_indicators :
    /\ x.user_id # y.user_id
    /\ x.room_id = y.room_id
    /\ x.updated_at < now - PassiveExpiry
    /\ y.updated_at = ClientClock(y.user_id)

\* send k was written by the store and is the only send written to its room
OnlyWrite(k) ==
  /\ sends[k].state = "accepted"
  /\ \A j \in DOMAIN sends :
       (j # k /\ sends[j].msg.room_id = sends[k].msg.room_id)
         => sends[j].state # "accepted"

\* C22: when a user opens the chat of a pair and sends one text, and that is
\* the only message written to the room, then exactly one room exists for
\* the pair and exactly one message row exists in it, with the sender's id,
\* the text as sent and read_at null.
C22_FirstMessageOfFreshPair ==
  \A k \in DOMAIN sends :
    OnlyWrite(k) =>
      LET s == sends[k].sess
          r == sends[k].msg.room_id
      IN /\ Cardinality(RoomsOfPair(chat_rooms, SessUser[s], otherUserId[s])) = 1
         /\ r \in RoomsOfPair(chat_rooms, SessUser[s], otherUserId[s])
         /\ Cardinality(RowsOfRoom(chat_messages, r)) = 1
         /\ \A i \in RowsOfRoom(chat_messages, r) :
              /\ chat_messages[i].sender_id = SessUser[s]
              /\ chat_messages[i].content = sends[k].msg.content
              /\ chat_messages[i].read_at = NULL

\* a pair that had no room: one window opened the chat, finished loading and
\* sent the one message the store holds
C22_Witness ==
  \E k \in DOMAIN sends :
    /\ OnlyWrite(k)
    /\ pc[sends[k].sess] = "ready"
    /\ Len(chat_rooms) = 1
    /\ Len(chat_messages) = 1

\* the step is LoadQuery(s): the history query of window s is answered
HistoryAnswered(s) == pc[s] = "load" /\ pc'[s] = "loaded"

\* the step is LoadDone(s): window s puts the answer on display
HistoryShown(s) == pc[s] = "loaded" /\ pc'[s] = "ready"

\* C23: the history load of a room returns every message row of the room,
\* soft-deleted rows included, each once, in non-decreasing order of
\* creation time, and the local list right after the load is that sequence.
C23_HistoryCompleteAndOrdered ==
  [][\A s \in Sessions :
       /\ HistoryAnswered(s) =>
            /\ {snapshot'[s][i].id : i \in DOMAIN snapshot'[s]}
                 = RowsOfRoom(chat_messages, room[s])
            /\ Len(snapshot'[s]) = Cardinality(RowsOfRoom(chat_messages, room[s]))
            /\ \A i \in DOMAIN snapshot'[s] :
                 snapshot'[s][i] = chat_messages[snapshot'[s][i].id]
            /\ Chronological(snapshot'[s])
       /\ HistoryShown(s) => messages'[s] = snapshot[s]]_vars

\* a window is ready with a loaded list of two rows of different creation
\* times, one of them soft-deleted
C23_Witness ==
  \E s \in Sessions :
    /\ pc[s] = "ready"
    /\ Len(messages[s]) = 2
    /\ messages[s][1].created_at < messages[s][2].created_at
    /\ \E i \in DOMAIN messages[s] : messages[s][i].deleted_at # NULL

\* C24: a keystroke followed by no further keystroke for the quiet window
\* has its setTyping(false) issued, and its typing row removed, no later than
\* the quiet window after that keystroke, whatever else reaches the window:
\* while the window still counts its user as typing, or the user's row is
\* still in the table, no more than QuietWindow has passed since the last key
StillTyping(s) ==
  \/ isTyping[s]
  \/ \E i \in DOMAIN typing_indicators :
       typing_indicators[i].user_id = SessUser[s]

C24_TypingClearedAfterQuietWindow ==
  \A s \in Sessions :
    (lastKeyAt[s] # NULL /\ StillTyping(s)) => now <= lastKeyAt[s] + QuietWindow

\* the preview p of room r is the content of a soft-deleted row of rows, and
\* of no row that is not deleted
BodyOfDeleted(rows, r, p) ==
  LET same == {i \in DOMAIN rows : /\ rows[i].room_id = r
                                   /\ rows[i].content = p.content
                                   /\ rows[i].created_at = p.created_at
                                   /\ rows[i].sender_id = p.sender_id}
  IN same # {} /\ \A i \in same : rows[i].deleted_at # NULL

NoDeletedPreview(entries, rows) ==
  \A k \in DOMAIN entries :
    entries[k].latest_message # << >>
      => ~BodyOfDeleted(rows, entries[k].id, LatestMessage(entries[k]))

\* C25: the inbox preview never shows the body of a soft-deleted message:
\* when a query of loadChatRooms answers, no room of the answer has for
\* preview the content of a message that is soft-deleted in the store
C25_NoDeletedBodyInPreview ==
  [][\A n \in DOMAIN inbox.loads :
       /\ (inbox.loads[n].stage = "first" /\ inbox'.loads[n].stage = "second")
            => NoDeletedPreview(inbox'.loads[n].data, chat_messages)
       /\ (inbox.loads[n].stage = "second" /\ inbox'.loads[n].stage = "done")
            => NoDeletedPreview(
                 SelectSeq(inbox'.rooms, LAMBDA e : e.participant2_id = InboxUser),
                 chat_messages)]_vars

\* window s has written nothing and reads nothing: no room, no history, no
\* subscription, no send
Inert(s) ==
  /\ room[s] = NULL
  /\ snapshot[s] = << >>
  /\ messages[s] = << >>
  /\ sub[s] = {}
  /\ tsub[s] = {}
  /\ \A k \in DOMAIN sends : sends[k].sess # s
  /\ \A i \in DOMAIN chat_messages : chat_messages[i].sender_id # SessUser[s]

\* C26: a creation that fails with the unique violation and whose re-query
\* finds no room, and a creation that fails with any other error, end room
\* resolution with an error: the room stays null, no history is loaded, no
\* subscription is opened and a later sendMessage writes nothing; the other
\* error fails the open at once, with no re-query
C26_FailedOpenStaysInert ==
  /\ [](\A s \in Sessions : StoreFault(s) => pc[s] = "failed" /\ Inert(s))
  /\ [][\A s \in Sessions :
          /\ (pc[s] = "requery" /\ room'[s] = NULL /\ pc'[s] # "requery")
               => pc'[s] = "failed"
          /\ (pc[s] = "insert" /\ how'[s] = "insert-error")
               => pc'[s] = "failed" /\ chat_rooms' = chat_rooms
          /\ (pc[s] = "failed" /\ room[s] = NULL /\ lastCall' # lastCall
                /\ lastCall'.sess = s)
               => /\ chat_messages' = chat_messages
                  /\ sends' = sends
                  /\ messages' = messages]_vars

\* after the unique violation the re-query found no room, and the user of
\* the failed window has submitted a text
C26_Witness ==
  \E s \in Sessions :
    /\ how[s] = "requery-error"
    /\ pc[s] = "failed"
    /\ lastCall.op = "send" /\ lastCall.sess = s

\* the messages window s holds or is about to receive, by send
Held(s) ==
  {snapshot[s][i].sid : i \in DOMAIN snapshot[s]}
    \cup {messages[s][i].sid : i \in DOMAIN messages[s]}
    \cup {feed[s][i].sid : i \in DOMAIN feed[s]}

\* C27: no message committed to the room from the moment the history
\* snapshot is taken is lost to the window: once the history query has
\* answered, every row of the room in the store is in the snapshot, in the
\* window's list, or on its way to it in the realtime feed
C27_NoMessageLostWhileOpening ==
  \A s \in Sessions :
    pc[s] \in {"loaded", "ready"}
      => \A i \in DOMAIN chat_messages :
           chat_messages[i].room_id = room[s] => chat_messages[i].sid \in Held(s)

\* C28: while typing events of the counterpart keep arriving less than
\* AutoClear apart the flag stays true; it goes off only once AutoClear has
\* passed since the most recent event (the timer of an earlier event does
\* not clear the flag a later event has set)
C28_FlagHeldSinceLatestEvent ==
  \A s \in Sessions :
    (lastTypingAt[s] # NULL /\ now < lastTypingAt[s] + AutoClear)
      => isOtherUserTyping[s]

\* the rooms a list shows
Shown(list) == {list[k].id : k \in DOMAIN list}

\* C29: of overlapping reloads of the inbox the list displayed is that of
\* the reload started last: a reload that ends after a reload started later
\* has shown its result does not replace that result with an older one.
\* (Rooms are never deleted, so a list that lacks a room the displayed list
\* has is older than the displayed list.)
C29_LateReloadNeverOverwrites ==
  [][\A n \in DOMAIN inbox.loads :
       (/\ inbox.loads[n].stage = "second"
        /\ inbox'.loads[n].stage = "done"
        /\ \E m \in DOMAIN inbox.loads : m > n /\ inbox.loads[m].stage = "done")
         => Shown(inbox.rooms) \subseteq Shown(inbox'.rooms)]_vars

\* the greatest created_at among the messages of room r
GreatestCreatedAt(rows, r) ==
  CHOOSE t \in {rows[i].created_at : i \in RowsOfRoom(rows, r)} :
    \A i \in RowsOfRoom(rows, r) : rows[i].created_at <= t

\* C30: after any sequence of appends the last-activity time of a room
\* never decreases, and it is the greatest created_at among the messages of
\* the room
C30_LastActivityFollowsMessages ==
  /\ [](\A k \in DOMAIN chat_rooms :
          RowsOfRoom(chat_messages, chat_rooms[k].id) # {}
            => chat_rooms[k].last_message_at
                 = GreatestCreatedAt(chat_messages, chat_rooms[k].id))
  /\ [][\A k \in DOMAIN chat_rooms :
          chat_rooms[k].last_message_at <= chat_rooms'[k].last_message_at]_vars
====
